---- MODULE Spec2Model ----
(***************************************************************************)
(* Width/spacing rule tables and track geometry of hammer-tech stackup.py. *)
(*                                                                         *)
(* Lengths are integers counting manufacturing grid units (grid_unit =     *)
(* 0.001), so the length 0.043 is 43 and 1.002 is 1002.  The program holds *)
(* them as IEEE-754 doubles.  Double arithmetic on these magnitudes is     *)
(* accurate to far less than half a grid unit, so it differs from exact    *)
(* arithmetic only where an error below one ulp decides the outcome:       *)
(*   - round() of a quotient that is exactly halfway between two grid      *)
(*     points (snap): the double lands on either side;                     *)
(*   - >= between two values that are exactly equal: either outcome,       *)
(*     unless every operand is a whole number of length units (those are   *)
(*     exact doubles);                                                     *)
(*   - int() of a quotient that is exactly an integer n: n or n-1.  This   *)
(*     one depends on a single double, so it is tabulated exactly          *)
(*     (TruncLowLit, TruncLowSnap).                                        *)
(* The first two are inputs of the call, chosen by the actions.            *)
(***************************************************************************)
EXTENDS Integers, Sequences, FiniteSets, TLC

VARIABLES l, min_width, pitch, ws, phase, call, ret

vars == <<l, min_width, pitch, ws, phase, call, ret>>

(* ---------------------------------------------------------------- bounds *)
MaxLen == 3          \* longest input list of table entries
MaxWal == 3          \* largest width_at_least of the small tables
MaxSp == 2           \* largest min_spacing of the small tables
MaxMinWidth == 4     \* largest Metal.min_width
MaxTracks == 3       \* largest track count
MaxPitchT == 12      \* largest Metal.pitch of the T W T model
MaxPitchW == 802     \* largest Metal.pitch of the T W W T model
MaxLenTracks == 2    \* longest input list of the T W T and T W W T models
MaxQueryPitch == 9000  \* largest pitch asked of min_spacing_from_pitch
MaxInexact == 45     \* largest threshold taken from TruncLowLit

(* ------------------------------------------------------------- grid unit *)
\* grid_unit == 0.001: grid units per unit of length.
GridPerUnit == 1000

\* A length that is a whole number of length units is an exact double.
Whole(n) == n % GridPerUnit = 0

\* Grid counts n whose literal double n/1000, divided by grid_unit, is a
\* double just below n, so that int() yields n-1 (all such n up to 130).
TruncLowLit == {43, 51, 59, 71, 86, 87, 102, 103, 118, 119}

\* Grid counts n whose snapped double float(n)*grid_unit, divided by
\* grid_unit, is a double just below n (all such n up to 4000).
TruncLowSnap == {2001, 2005, 2009, 2013, 2017, 2021, 2025, 2029, 2033, 2037, 2041}

\* int(x / grid_unit) for a configuration literal x of n grid units.
IntQuotLit(n) == IF n \in TruncLowLit THEN n - 1 ELSE n

\* int(x / grid_unit) for x = snap(..) of n grid units; int() truncates
\* towards zero, so the error is mirrored for negative n.
IntQuotSnap(n) ==
  IF n \in TruncLowSnap THEN n - 1
  ELSE IF (0 - n) \in TruncLowSnap THEN n + 1
  ELSE n

\* a >= b on doubles whose exact values are a and b grid units.
FloatGe(a, b, exact, lucky) == a > b \/ (a = b /\ (exact \/ lucky))

\* Metal.snap applied to the exact quotient n/d (d > 0): the nearest grid
\* count; an exact half goes the way the double error points (up).
snap(n, d, up) ==
  LET q == n \div d
      r == n % d
  IN IF 2 * r < d THEN q
     ELSE IF 2 * r > d THEN q + 1
     ELSE IF up THEN q + 1 ELSE q

(* ---------------------------------------------------- WidthSpacingTuple *)
WidthSpacingTuple(w, s) == [width_at_least |-> w, min_spacing |-> s]

\* The asserts of WidthSpacingTuple.from_setting.
EntryOk(e) == e.width_at_least >= 0 /\ e.min_spacing > 0

\* Insert e behind every element whose key is <= e's key.
RECURSIVE InsertByWidth(_, _)
InsertByWidth(s, e) ==
  IF s = <<>> THEN <<e>>
  ELSE IF s[Len(s)].width_at_least <= e.width_at_least THEN Append(s, e)
  ELSE Append(InsertByWidth(SubSeq(s, 1, Len(s) - 1), e), s[Len(s)])

\* sorted(.., key=lambda x: x.width_at_least): stable, keyed on the width only.
RECURSIVE sorted(_)
sorted(s) ==
  IF s = <<>> THEN <<>>
  ELSE InsertByWidth(sorted(SubSeq(s, 1, Len(s) - 1)), s[Len(s)])

\* The loop of from_list: every min_spacing >= the previous one, from 0.0.
RECURSIVE Monotone(_, _, _)
Monotone(out, i, s) ==
  IF i > Len(out) THEN TRUE
  ELSE out[i].min_spacing >= s /\ Monotone(out, i + 1, out[i].min_spacing)

\* WidthSpacingTuple.from_list: ok = FALSE is the AssertionError.
from_list(lst) ==
  IF \E i \in 1..Len(lst) : ~EntryOk(lst[i]) THEN [ok |-> FALSE, out |-> <<>>]
  ELSE LET out == sorted(lst)
       IN IF Monotone(out, 1, 0) THEN [ok |-> TRUE, out |-> out]
          ELSE [ok |-> FALSE, out |-> <<>>]

(* ----------------------------------------------------------------- Metal *)
NoCall == [op |-> "none", arg |-> 0, force_even |-> FALSE]
Result(st, w, s, b) == [status |-> st, width |-> w, spacing |-> s, start |-> b]
NoRet == Result("none", 0, 0, 0)

\* spacing_scan with the threshold test made strict (width > width_at_least).
RECURSIVE spacing_scan_strict(_, _, _, _)
spacing_scan_strict(t, width, i, spacing) ==
  IF i > Len(t) THEN spacing
  ELSE IF width > t[i].width_at_least
       THEN spacing_scan_strict(t, width, i + 1,
                                IF t[i].min_spacing > spacing THEN t[i].min_spacing ELSE spacing)
       ELSE spacing

\* Metal.get_spacing_for_width
RECURSIVE spacing_scan(_, _, _, _)
spacing_scan(t, width, i, spacing) ==
  IF i > Len(t) THEN spacing
  ELSE IF width >= t[i].width_at_least
       THEN spacing_scan(t, width, i + 1,
                         IF t[i].min_spacing > spacing THEN t[i].min_spacing ELSE spacing)
       ELSE spacing

get_spacing_for_width(t, width) == spacing_scan(t, width, 1, 0)

\* pitch_pair with the width pinned one grid unit below the threshold, not two.
pitch_pair_one_grid(first, second, p, spacing, lucky) ==
  LET exact == Whole(p) /\ Whole(first.min_spacing) /\ Whole(second.min_spacing)
                 /\ Whole(second.width_at_least)
  IN IF FloatGe(p, second.min_spacing + second.width_at_least, exact, lucky)
     THEN second.min_spacing
     ELSE IF FloatGe(p, first.min_spacing + second.width_at_least, exact, lucky)
     THEN LET width == snap(second.width_at_least - 1, 1, FALSE)
          IN snap(p - width, 1, FALSE)
     ELSE spacing

\* One adjacent pair (first, second) of the walk of min_spacing_from_pitch.
pitch_pair(first, second, p, spacing, lucky) ==
  LET exact == Whole(p) /\ Whole(first.min_spacing) /\ Whole(second.min_spacing)
                 /\ Whole(second.width_at_least)
  IN IF FloatGe(p, second.min_spacing + second.width_at_least, exact, lucky)
     THEN second.min_spacing
     ELSE IF FloatGe(p, first.min_spacing + second.width_at_least, exact, lucky)
     THEN LET width == snap(second.width_at_least - 2, 1, FALSE)
          IN snap(p - width, 1, FALSE)
     ELSE spacing

RECURSIVE pitch_walk(_, _, _, _, _)
pitch_walk(t, p, i, spacing, ge) ==
  IF i >= Len(t) THEN spacing
  ELSE pitch_walk(t, p, i + 1, pitch_pair(t[i], t[i + 1], p, spacing, ge[i]), ge)

\* Metal.min_spacing_from_pitch; ws[0] of an empty table is an IndexError.
min_spacing_from_pitch(t, p, ge) ==
  IF t = <<>> THEN Result("IndexError", 0, 0, 0)
  ELSE Result("ok", 0, pitch_walk(t, p, 1, t[1].min_spacing, ge), 0)

\* twt_pair that adopts the next spacing without recomputing the width.
twt_pair_stale_width(first, second, s2w, acc, lucky, tie) ==
  LET exact == Whole(s2w) /\ Whole(first.min_spacing) /\ Whole(second.min_spacing)
                 /\ Whole(second.width_at_least)
  IN IF FloatGe(s2w, second.min_spacing * 2 + second.width_at_least, exact, lucky)
     THEN [width |-> acc.width, spacing |-> second.min_spacing]
     ELSE IF FloatGe(s2w, first.min_spacing * 2 + second.width_at_least, exact, lucky)
     THEN LET width == IF IntQuotLit(second.width_at_least) % 2 = 0
                       THEN snap(second.width_at_least - 2, 1, tie)
                       ELSE snap(second.width_at_least - 1, 1, tie)
          IN [width |-> width, spacing |-> snap(s2w - width, 2, tie)]
     ELSE acc

\* One adjacent pair of the walk of get_width_spacing_start_twt;
\* acc is the (width, spacing) reached so far.
twt_pair(first, second, s2w, acc, lucky, tie) ==
  LET exact == Whole(s2w) /\ Whole(first.min_spacing) /\ Whole(second.min_spacing)
                 /\ Whole(second.width_at_least)
  IN IF FloatGe(s2w, second.min_spacing * 2 + second.width_at_least, exact, lucky)
     THEN [width |-> snap(s2w - second.min_spacing * 2, 1, tie),
           spacing |-> second.min_spacing]
     ELSE IF FloatGe(s2w, first.min_spacing * 2 + second.width_at_least, exact, lucky)
     THEN LET width == IF IntQuotLit(second.width_at_least) % 2 = 0
                       THEN snap(second.width_at_least - 2, 1, tie)
                       ELSE snap(second.width_at_least - 1, 1, tie)
          IN [width |-> width, spacing |-> snap(s2w - width, 2, tie)]
     ELSE acc

RECURSIVE twt_walk(_, _, _, _, _, _)
twt_walk(t, s2w, i, acc, ge, tie) ==
  IF i >= Len(t) THEN acc
  ELSE twt_walk(t, s2w, i + 1, twt_pair(t[i], t[i + 1], s2w, acc, ge[i], tie), ge, tie)

\* Metal.get_width_spacing_start_twt.  ge[i] resolves the comparisons of pair
\* i when they are exact ties, tie the rounding of width and spacing, tie2
\* the rounding of start.
get_width_spacing_start_twt(t, mw, p, tracks, ge, tie, tie2) ==
  IF t = <<>> THEN Result("IndexError", 0, 0, 0)
  ELSE LET s2w == snap((tracks + 1) * p - mw, 1, tie)
       IN IF s2w % 2 # 0 THEN Result("assert_s2w", 0, 0, 0)
          ELSE LET acc == twt_walk(t, s2w, 1,
                                   [width |-> snap(s2w - t[1].min_spacing * 2, 1, tie),
                                    spacing |-> t[1].min_spacing], ge, tie)
               IN IF mw % 2 # 0 THEN Result("assert_min_width", 0, 0, 0)
                  ELSE IF acc.width % 2 # 0 THEN Result("assert_width", 0, 0, 0)
                  ELSE Result("ok", acc.width, acc.spacing,
                              snap(mw + 2 * acc.spacing, 2, tie2))

\* One adjacent pair of the walk of get_width_spacing_start_twwt.
twwt_pair(first, second, s3w2, acc, lucky, tie) ==
  LET exact == Whole(s3w2) /\ Whole(first.min_spacing) /\ Whole(second.min_spacing)
                 /\ Whole(second.width_at_least)
  IN IF FloatGe(s3w2, second.min_spacing * 3 + second.width_at_least * 2, exact, lucky)
     THEN [width |-> snap(s3w2 - second.min_spacing * 3, 2, tie),
           spacing |-> second.min_spacing]
     ELSE IF FloatGe(s3w2, first.min_spacing * 3 + second.width_at_least * 2, exact, lucky)
     THEN LET width == snap(second.width_at_least - 1, 1, tie)
          IN [width |-> width, spacing |-> snap(s3w2 - width * 2, 3, tie)]
     ELSE acc

RECURSIVE twwt_walk(_, _, _, _, _, _)
twwt_walk(t, s3w2, i, acc, ge, tie) ==
  IF i >= Len(t) THEN acc
  ELSE twwt_walk(t, s3w2, i + 1, twwt_pair(t[i], t[i + 1], s3w2, acc, ge[i], tie), ge, tie)

\* The force_even adjustment at the end of get_width_spacing_start_twwt.
force_even_adjust(r, force_even, tie) ==
  IF force_even /\ IntQuotSnap(r.width) % 2 = 1
  THEN Result("ok", snap(r.width - 1, 1, tie), r.spacing, snap(r.start + 1, 1, tie))
  ELSE r

\* Metal.get_width_spacing_start_twwt
get_width_spacing_start_twwt(t, mw, p, tracks, force_even, ge, tie, tie2) ==
  IF t = <<>> THEN Result("IndexError", 0, 0, 0)
  ELSE LET s3w2 == snap((2 * tracks + 1) * p - mw, 1, tie)
           acc == twwt_walk(t, s3w2, 1,
                            [width |-> snap(s3w2 - t[1].min_spacing * 3, 2, tie),
                             spacing |-> t[1].min_spacing], ge, tie)
       IN IF IntQuotLit(mw) % 2 # 0 THEN Result("assert_min_width", 0, 0, 0)
          ELSE force_even_adjust(Result("ok", acc.width, acc.spacing,
                                        snap(mw + 2 * acc.spacing, 2, tie2)),
                                 force_even, tie)

(* ------------------------------------------------------------ the inputs *)
Entries(W, S) == {WidthSpacingTuple(w, s) : w \in W, s \in S}
ListsOf(E, n) == UNION {[1..k -> E] : k \in 0..n}

\* The table of the worked example: [(0,1),(4,2),(7,3)] in length units.
ExampleTable ==
  << WidthSpacingTuple(0, 1 * GridPerUnit),
     WidthSpacingTuple(4 * GridPerUnit, 2 * GridPerUnit),
     WidthSpacingTuple(7 * GridPerUnit, 3 * GridPerUnit) >>

RECURSIVE Perms(_)
Perms(s) ==
  IF s = <<>> THEN {<<>>}
  ELSE UNION { {<<s[i]>> \o q :
                  q \in Perms([j \in 1..(Len(s) - 1) |-> IF j < i THEN s[j] ELSE s[j + 1]])}
               : i \in 1..Len(s) }

\* One resolution of an inexact >= per adjacent pair of the table.
NoiseGe == [1..(Len(ws) - 1) -> BOOLEAN]

InitWith(Lists, MinWidths, Pitches) ==
  /\ l \in Lists
  /\ min_width \in MinWidths
  /\ pitch \in Pitches
  /\ ws = <<>>
  /\ phase = "input"
  /\ call = NoCall
  /\ ret = NoRet

(* ----------------------------------------------------------- the actions *)
\* A behaviour builds one Metal and asks it one query.
\* Metal.from_setting: builds the table with WidthSpacingTuple.from_list.
from_setting ==
  /\ phase = "input"
  /\ LET r == from_list(l)
     IN /\ phase' = IF r.ok THEN "built" ELSE "failed"
        /\ ws' = r.out
  /\ UNCHANGED <<l, min_width, pitch, call, ret>>

CallGetSpacingForWidth ==
  /\ phase = "built"
  /\ call = NoCall
  /\ \E width \in 0..(MaxWal + 1) :
       /\ call' = [op |-> "get_spacing_for_width", arg |-> width, force_even |-> FALSE]
       /\ ret' = Result("ok", 0, get_spacing_for_width(ws, width), 0)
  /\ UNCHANGED <<l, min_width, pitch, ws, phase>>

CallMinSpacingFromPitch ==
  /\ phase = "built"
  /\ call = NoCall
  /\ \E p \in 0..MaxQueryPitch, ge \in NoiseGe :
       /\ call' = [op |-> "min_spacing_from_pitch", arg |-> p, force_even |-> FALSE]
       /\ ret' = min_spacing_from_pitch(ws, p, ge)
  /\ UNCHANGED <<l, min_width, pitch, ws, phase>>

CallTwt ==
  /\ phase = "built"
  /\ call = NoCall
  /\ \E tracks \in 1..MaxTracks, ge \in NoiseGe, tie \in BOOLEAN, tie2 \in BOOLEAN :
       /\ call' = [op |-> "twt", arg |-> tracks, force_even |-> FALSE]
       /\ ret' = get_width_spacing_start_twt(ws, min_width, pitch, tracks, ge, tie, tie2)
  /\ UNCHANGED <<l, min_width, pitch, ws, phase>>

CallTwwt ==
  /\ phase = "built"
  /\ call = NoCall
  /\ \E tracks \in 1..MaxTracks, force_even \in BOOLEAN, ge \in NoiseGe,
        tie \in BOOLEAN, tie2 \in BOOLEAN :
       /\ call' = [op |-> "twwt", arg |-> tracks, force_even |-> force_even]
       /\ ret' = get_width_spacing_start_twwt(ws, min_width, pitch, tracks, force_even,
                                               ge, tie, tie2)
  /\ UNCHANGED <<l, min_width, pitch, ws, phase>>

(* ---------------------------------------------------- the specifications *)
\* Table construction and the width query, over every small input list.
InitTable ==
  InitWith(ListsOf(Entries((0 - 1)..MaxWal, 0..MaxSp), MaxLen), {2}, {2})
NextTable == from_setting \/ CallGetSpacingForWidth
SpecTable == InitTable /\ [][NextTable]_vars

\* The pitch query over the worked example's table, given in any order.
InitPitch == InitWith(Perms(ExampleTable), {2}, {2})
NextPitch == from_setting \/ CallMinSpacingFromPitch
SpecPitch == InitPitch /\ [][NextPitch]_vars

\* T W T: small thresholds plus the first ones whose quotient truncates low.
WalsT == (0..MaxWal) \cup {w \in TruncLowLit : w <= MaxInexact}
InitTwt ==
  InitWith(ListsOf(Entries(WalsT, 1..MaxSp), MaxLenTracks), 1..MaxMinWidth, 1..MaxPitchT)
NextTwt == from_setting \/ CallTwt
SpecTwt == InitTwt /\ [][NextTwt]_vars

\* T W W T: pitches large enough for widths beyond 2000 grid units.
InitTwwt ==
  InitWith(ListsOf(Entries(0..MaxWal, 1..MaxSp), MaxLenTracks), 1..MaxMinWidth, 1..MaxPitchW)
NextTwwt == from_setting \/ CallTwwt
SpecTwwt == InitTwwt /\ [][NextTwwt]_vars

(* ------------------------------------------------------------ properties *)
Constructed == phase # "input"
Returned(op) == call.op = op /\ ret.status = "ok"

\* The min_spacing sequence of the sorted list is not non-decreasing.
NonMonotonic(lst) ==
  LET out == sorted(lst)
  IN \E i \in 1..(Len(out) - 1) : out[i].min_spacing > out[i + 1].min_spacing

\* C1: construction fails exactly when the input is empty, some
\* width_at_least < 0, some min_spacing <= 0, or the sorted min_spacing
\* sequence is not non-decreasing; every other input yields a table.
C1_FailsExactlyOnInvalid ==
  Constructed =>
    ((phase = "failed") <=>
       (\/ l = <<>>
        \/ \E i \in 1..Len(l) : l[i].width_at_least < 0
        \/ \E i \in 1..Len(l) : l[i].min_spacing <= 0
        \/ NonMonotonic(l)))

OnExample(p) ==
  /\ phase = "built" /\ ws = ExampleTable
  /\ call.op = "min_spacing_from_pitch" /\ call.arg = p

\* C2 as stated: on the table [(0,1),(4,2),(7,3)] the pitch query returns
\* 1 at pitch 4.999, 1 at pitch 5.0 and 2 at pitch 9.
C2_ExampleAsStated ==
  /\ OnExample(4999) => (ret.status = "ok" /\ ret.spacing = 1 * GridPerUnit)
  /\ OnExample(5000) => (ret.status = "ok" /\ ret.spacing = 1 * GridPerUnit)
  /\ OnExample(9000) => (ret.status = "ok" /\ ret.spacing = 2 * GridPerUnit)

\* C2 amended: on the table [(0,1),(4,2),(7,3)] the pitch query returns 1 at
\* pitch 4.999, 1.002 at pitch 5.0 (the width-constrained branch pins the
\* width to 4 - 2 grid units and the spacing is pitch - width) and 2.002 at
\* pitch 9 (the second pair is width-constrained at 7 - 2 grid units).
C2_ExampleAmended ==
  /\ OnExample(4999) => (ret.status = "ok" /\ ret.spacing = 1 * GridPerUnit)
  /\ OnExample(5000) => (ret.status = "ok" /\ ret.spacing = 1 * GridPerUnit + 2)
  /\ OnExample(9000) => (ret.status = "ok" /\ ret.spacing = 2 * GridPerUnit + 2)

C2_Witness == OnExample(5000) /\ ret.spacing = 1 * GridPerUnit + 2

\* C3: whenever get_width_spacing_start_twt returns, the width and the two
\* spacings consume the budget exactly: width + 2*spacing = s2w, where
\* s2w = (tracks+1)*pitch - min_width.
C3_BudgetExact ==
  Returned("twt") =>
    ret.width + 2 * ret.spacing = (call.arg + 1) * pitch - min_width

\* A T W T result of the width-constrained branch: the budget lies between
\* the two thresholds of a pair, the width is pinned below the pair's
\* width_at_least and the spacing is back-solved above the first min_spacing.
C3_Witness ==
  /\ Returned("twt")
  /\ ret.width > 0
  /\ \E i \in 2..Len(ws) :
       LET s2w == (call.arg + 1) * pitch - min_width
       IN /\ s2w < ws[i].min_spacing * 2 + ws[i].width_at_least
          /\ s2w > ws[i - 1].min_spacing * 2 + ws[i].width_at_least
          /\ ret.width < ws[i].width_at_least
          /\ ret.width >= ws[i].width_at_least - 2
          /\ ret.spacing > ws[i - 1].min_spacing

\* C4: with an even min_width and a grid-aligned pitch, the budget s2w is
\* even for every track count, so the assertion on s2w never fails.
C4_S2wAlwaysEven ==
  (call.op = "twt" /\ min_width % 2 = 0) => ret.status # "assert_s2w"

\* C5: once s2w is even, the width is even on every path of the walk, so
\* the assertion on the width never fails.
C5_WidthAlwaysEven ==
  call.op = "twt" => ret.status # "assert_width"

\* C6: get_width_spacing_start_twwt with force_even never returns a width
\* that is an odd number of grid units.
C6_ForceEvenIsEven ==
  (Returned("twwt") /\ call.force_even) => ret.width % 2 = 0

\* The largest min_spacing over the entries with width_at_least <= width,
\* 0 when there is none.
MaxSpacingUpTo(t, width) ==
  LET S == {t[i].min_spacing : i \in {j \in 1..Len(t) : t[j].width_at_least <= width}}
  IN IF S = {} THEN 0 ELSE CHOOSE m \in S : \A x \in S : x <= m

\* C7: on a constructed table the early-exit scan of get_spacing_for_width
\* returns the maximum min_spacing over all entries with
\* width_at_least <= width, 0 when there is none, and always returns.
C7_ScanIsMaximum ==
  call.op = "get_spacing_for_width" =>
    (ret.status = "ok" /\ ret.spacing = MaxSpacingUpTo(ws, call.arg))

\* The scan left early: an entry lies above the width, one at or below it.
C7_Witness ==
  /\ call.op = "get_spacing_for_width"
  /\ ret.spacing > 0
  /\ \E i \in 1..Len(ws) : ws[i].width_at_least > call.arg
  /\ \E i \in 1..Len(ws) : ws[i].width_at_least = call.arg

\* C8: the (width, spacing) returned by get_width_spacing_start_twwt obeys
\* the rule table: spacing >= get_spacing_for_width(width).
C8_ObeysRuleTable ==
  Returned("twwt") => ret.spacing >= get_spacing_for_width(ws, ret.width)

\* C9: two wires and three gaps never exceed the budget:
\* 2*width + 3*spacing <= s3w2 = (2*tracks+1)*pitch - min_width.
C9_WithinBudget ==
  Returned("twwt") =>
    2 * ret.width + 3 * ret.spacing <= (2 * call.arg + 1) * pitch - min_width

\* C10: construction is insensitive to the order of its input: every
\* permutation of the input fails when it fails and yields the same table
\* when it succeeds.
C10_OrderInsensitive ==
  Constructed =>
    \A q \in Perms(l) : from_list(q) = [ok |-> (phase = "built"), out |-> ws]

====
